---------------------------- MODULE Spec2Model ----------------------------
(***************************************************************************)
(* Voice command lifecycle of the BlindAssist single-page application:     *)
(* capture (VoiceControl, speech recognition callbacks), interpretation    *)
(* (executeCommand's if-cascade and its handlers), lookups (SearchService  *)
(* timers) and speech output (Index.speakText on window.speechSynthesis).  *)
(*                                                                         *)
(* Strings are TLA+ strings, read character by character, so substring     *)
(* tests, lower-casing, trimming and the handlers' regular expressions are *)
(* computed the way the JavaScript computes them.                          *)
(***************************************************************************)
EXTENDS Integers, Sequences, FiniteSets, TLC

(***************************************************************************)
(* Bounds of the model.                                                    *)
(***************************************************************************)
\* largest number of vocabulary phrases joined into one transcript
MaxChunks == 2
\* largest number of command handlers suspended at a lookup at one time
MaxPending == 2
\* largest number of web searches awaiting their timer at one time
MaxSearches == 2

(***************************************************************************)
(* JavaScript string primitives.                                           *)
(***************************************************************************)
Ch(s, i) == SubSeq(s, i, i)

UpperLetters == "ABCDEFGHIJKLMNOPQRSTUVWXYZ"
LowerLetters == "abcdefghijklmnopqrstuvwxyz"

UpperSet == {Ch(UpperLetters, k) : k \in 1..Len(UpperLetters)}

LowerCh(c) ==
  IF c \in UpperSet
    THEN Ch(LowerLetters, CHOOSE k \in 1..Len(UpperLetters) : Ch(UpperLetters, k) = c)
    ELSE c

\* String.prototype.toLowerCase
toLowerCase(s) ==
  LET low[i \in 0..Len(s)] == IF i = 0 THEN "" ELSE low[i - 1] \o LowerCh(Ch(s, i))
  IN  low[Len(s)]

\* the regular expression class \s, on the characters transcripts are made of
IsSpace(c) == c = " "

\* the regular expression class \d
IsDigit(c) == c \in {"0", "1", "2", "3", "4", "5", "6", "7", "8", "9"}

\* String.prototype.trim
trim(s) ==
  IF \A i \in 1..Len(s) : IsSpace(Ch(s, i)) THEN ""
  ELSE LET first == CHOOSE i \in 1..Len(s) :
                      ~IsSpace(Ch(s, i)) /\ \A j \in 1..(i - 1) : IsSpace(Ch(s, j))
           last == CHOOSE i \in 1..Len(s) :
                     ~IsSpace(Ch(s, i)) /\ \A j \in (i + 1)..Len(s) : IsSpace(Ch(s, j))
       IN  SubSeq(s, first, last)

\* p occurs in s at position i
OccursAt(s, p, i) == i >= 1 /\ i + Len(p) - 1 <= Len(s) /\ SubSeq(s, i, i + Len(p) - 1) = p

\* String.prototype.includes
includes(s, p) == \E i \in 1..(Len(s) - Len(p) + 1) : OccursAt(s, p, i)

\* the index of the first character at or after i that is not white space
SkipSpaces(s, i) ==
  CHOOSE k \in i..(Len(s) + 1) :
    /\ \A j \in i..(k - 1) : IsSpace(Ch(s, j))
    /\ k = Len(s) + 1 \/ ~IsSpace(Ch(s, k))

\* the index of the first character at or after i that is not a digit
SkipDigits(s, i) ==
  CHOOSE k \in i..(Len(s) + 1) :
    /\ \A j \in i..(k - 1) : IsDigit(Ch(s, j))
    /\ k = Len(s) + 1 \/ ~IsDigit(Ch(s, k))

\* s.replace(/.*PHRASE\s+/i, '') on a lower-case s: the greedy .* makes the
\* match end at the LAST occurrence of the phrase that white space follows,
\* \s+ then takes all of that white space; without such an occurrence the
\* expression does not match and replace returns s unchanged.
stripThroughPhrase(s, phrase) ==
  LET ends == {i \in 1..Len(s) : OccursAt(s, phrase, i)
                                  /\ i + Len(phrase) <= Len(s)
                                  /\ IsSpace(Ch(s, i + Len(phrase)))}
  IN  IF ends = {} THEN s
      ELSE LET last == CHOOSE i \in ends : \A j \in ends : i >= j
           IN  SubSeq(s, SkipSpaces(s, last + Len(phrase)), Len(s))

DigitValue(c) == CHOOSE d \in 0..9 : Ch("0123456789", d + 1) = c

\* parseInt on a string of decimal digits
parseInt(ds) ==
  LET value[i \in 0..Len(ds)] ==
        IF i = 0 THEN 0 ELSE 10 * value[i - 1] + DigitValue(Ch(ds, i))
  IN  value[Len(ds)]

\* command.match(/headline\s+(\d+)/): the capture group of the leftmost
\* match, "" standing for a null result (the group itself is never empty)
matchHeadlineNumber(s) ==
  LET hits == {i \in 1..Len(s) :
                 /\ OccursAt(s, "headline", i)
                 /\ i + 8 <= Len(s) /\ IsSpace(Ch(s, i + 8))
                 /\ SkipSpaces(s, i + 8) <= Len(s)
                 /\ IsDigit(Ch(s, SkipSpaces(s, i + 8)))}
  IN  IF hits = {} THEN ""
      ELSE LET first == CHOOSE i \in hits : \A j \in hits : i <= j
               d0 == SkipSpaces(s, first + 8)
           IN  SubSeq(s, d0, SkipDigits(s, d0) - 1)


(***************************************************************************)
(* Texts handed to onSpeech and speakText.  A long text (the help message, *)
(* the page analysis, a text built from the fixed mock data) is written up *)
(* to its first sentence and "..."; the part left out is the same on every *)
(* call.                                                                   *)
(***************************************************************************)
WakeText == "BlindAssist activated. I am listening for your command."
DateText == "Today is <currentDate>."
TimeText == "The current time is <currentTime> on <currentDate>."
HeadlinesProgressText == "Getting today's headlines from credible sources..."
HeadlinesFailText == "I could not retrieve today's headlines at this time. Please try again later."
SpecifyHeadlineText == "Please specify which headline number you'd like to hear more about."
HeadlineDetailFailText == "I could not retrieve the headline details. Please try again."
WeatherProgressText == "Getting current weather information for your location..."
WeatherFailText == "I could not retrieve weather information at this time. Please try again later."
StopText == "Audio stopped. I am ready for your next command."
RepeatText == "Repeating last response."
ReadPageText == "Analyzing the current webpage content..."
SummarizeText == "Summarizing the content..."
ContentResultText == "I have analyzed the current page content. ..."
HelpText == "BlindAssist Enhanced Command Guide: ..."
ErrorText == "I encountered an error processing your command. Please try again."
ListeningStartedText == "Voice listening started. Speak your command clearly."
ListeningStoppedText == "Voice listening stopped."
StopAllText == "All audio output stopped."
WelcomeText ==
  "Welcome to BlindAssist, your AI-powered accessibility companion. "
    \o "I am ready to help you navigate the digital world."
EmergencyText == "All audio output has been stopped. BlindAssist is ready for your next command."

DetailProgressText(n) == "Getting more details about headline " \o ToString(n) \o "..."
DetailText(n) == "Here are the full details for headline " \o ToString(n) \o ": ..."
GoogleProgressText(term) ==
  "Performing Google search for " \o term \o ". Gathering current information..."
GoogleFailText(term) ==
  "I encountered an error searching Google for " \o term \o ". Please try your search again."
SearchProgressText(term) ==
  "Searching for " \o term \o ". Please wait while I gather the latest information."
SearchFailText(term) ==
  "I encountered an error searching for " \o term \o ". Please try your search again."
DefaultText(command) == "I heard: " \o command \o ". Let me help you with that."
ModeText(mode) ==
  CASE mode = "voice" -> "Voice control mode activated. Speak your commands."
    [] mode = "web" -> "Web navigation mode activated. I can help you browse websites."
    [] mode = "image" -> "Image description mode activated. Upload an image for detailed description."
    [] mode = "text" -> "Text analysis mode activated. Paste or type content for analysis."

EnterQueryText == "Please enter a search query first."
ExecutingSearchText(query) ==
  "Executing search for " \o query
    \o ". Gathering real-time information from multiple sources..."
SearchCompletedText(query) ==
  "Search completed for " \o query \o ". I found 4 relevant sources with current information. ..."
SearchErrorText(query) ==
  "I encountered an error while searching for " \o query \o ". ..."

(***************************************************************************)
(* SearchService: the mock data and the texts formatted from it.           *)
(***************************************************************************)
\* the number of items getTodaysHeadlines returns
NumHeadlines == 5
\* the number of results performGoogleSearch returns
NumResults == 3

formatHeadlinesForSpeech(count) ==
  IF count = 0 THEN "No current headlines available at this time."
  ELSE "Here are today's top " \o ToString(count) \o " headlines: ..."

formatSearchForSpeech(count, query) ==
  IF count = 0
    THEN "No current results found for \"" \o query \o "\". Let me try a broader search or check back later."
    ELSE "I found " \o ToString(count) \o " current results for \"" \o query \o "\". "

formatWeatherForSpeech ==
  "Current weather for Current Location: It is 72F (22C) and Partly Cloudy. ..."

HeadlineUnavailableText(n, count) ==
  "Headline " \o ToString(n) \o " is not available. Please choose a number between 1 and "
    \o ToString(count) \o "."

\* the delay, in milliseconds, of the timer each lookup awaits
LookupDelay(lookup) ==
  CASE lookup \in {"google", "search"} -> 1500
    [] lookup \in {"headlines", "headlineDetail"} -> 1200
    [] lookup = "weather" -> 1000
    [] lookup = "content" -> 2000

\* the lookups that go through a SearchService method, which rethrows what
\* its body throws; handleContentAnalysis awaits a bare timer
CanFail(lookup) == lookup \in {"google", "search", "headlines", "headlineDetail", "weather"}

(***************************************************************************)
(* executeCommand: the if-cascade over the lower-cased, trimmed command.   *)
(* Each operator is a stretch of the cascade and names the branch taken.   *)
(***************************************************************************)
\* the alternative cascade in which "stop", "quiet" and "pause" are tested
\* before "weather"
TailBranches_StopFirst(lc) ==
  IF includes(lc, "stop") \/ includes(lc, "quiet") \/ includes(lc, "pause") THEN "stop"
  ELSE IF includes(lc, "weather") THEN "weather"
  ELSE IF includes(lc, "repeat") THEN "repeat"
  ELSE IF includes(lc, "read this page") \/ includes(lc, "summarize this") THEN "content"
  ELSE IF includes(lc, "help") THEN "help"
  ELSE "default"

\* the alternative cascade that lacks the repeat test
TailBranches_NoRepeat(lc) ==
  IF includes(lc, "weather") THEN "weather"
  ELSE IF includes(lc, "stop") \/ includes(lc, "quiet") \/ includes(lc, "pause") THEN "stop"
  ELSE IF includes(lc, "read this page") \/ includes(lc, "summarize this") THEN "content"
  ELSE IF includes(lc, "help") THEN "help"
  ELSE "default"

\* weather, stop, repeat, content analysis, help, default
TailBranches(lc) ==
  IF includes(lc, "weather") THEN "weather"
  ELSE IF includes(lc, "stop") \/ includes(lc, "quiet") \/ includes(lc, "pause") THEN "stop"
  ELSE IF includes(lc, "repeat") THEN "repeat"
  ELSE IF includes(lc, "read this page") \/ includes(lc, "summarize this") THEN "content"
  ELSE IF includes(lc, "help") THEN "help"
  ELSE "default"

\* the alternative cascade in which the general search phrases are tested
\* before the Google phrases
SearchBranches_GeneralFirst(lc) ==
  IF includes(lc, "search for") \/ includes(lc, "find news about") \/ includes(lc, "look up")
    THEN "search"
  ELSE IF includes(lc, "search google for") \/ includes(lc, "google search") THEN "google"
  ELSE TailBranches(lc)

\* Google search, general search
SearchBranches(lc) ==
  IF includes(lc, "search google for") \/ includes(lc, "google search") THEN "google"
  ELSE IF includes(lc, "search for") \/ includes(lc, "find news about") \/ includes(lc, "look up")
    THEN "search"
  ELSE TailBranches(lc)

\* the alternative cascade that lacks the time test
CommandBranches_NoTimeTest(lc) ==
  IF includes(lc, "what day") \/ includes(lc, "today") \/ includes(lc, "date") THEN "date"
  ELSE IF includes(lc, "headlines") \/ includes(lc, "today's news")
          \/ includes(lc, "what's happening") THEN "headlines"
  ELSE IF includes(lc, "tell me more about headline") \/ includes(lc, "more about headline")
    THEN "headlineDetail"
  ELSE SearchBranches(lc)

\* date, time, headlines, headline detail
CommandBranches(lc) ==
  IF includes(lc, "what day") \/ includes(lc, "today") \/ includes(lc, "date") THEN "date"
  ELSE IF includes(lc, "time") \/ includes(lc, "what time") THEN "time"
  ELSE IF includes(lc, "headlines") \/ includes(lc, "today's news")
          \/ includes(lc, "what's happening") THEN "headlines"
  ELSE IF includes(lc, "tell me more about headline") \/ includes(lc, "more about headline")
    THEN "headlineDetail"
  ELSE SearchBranches(lc)

\* the alternative cascade in which the wake word is tested after the
\* stop phrases
Branch_WakeAfterStop(lc) ==
  IF includes(lc, "stop") \/ includes(lc, "quiet") \/ includes(lc, "pause") THEN "stop"
  ELSE IF includes(lc, "hey blindassist") \/ includes(lc, "blindassist") THEN "wake"
  ELSE CommandBranches(lc)

\* wake word first
Branch(lc) ==
  IF includes(lc, "hey blindassist") \/ includes(lc, "blindassist") THEN "wake"
  ELSE CommandBranches(lc)

(***************************************************************************)
(* The handlers, up to their first await.  A handler start is the texts it *)
(* has spoken, the lookup it awaits ("none" when it returned) and what it  *)
(* keeps for the continuation.                                             *)
(***************************************************************************)
Started(said, lookup, term, number) ==
  [said |-> said, lookup |-> lookup, term |-> term, number |-> number]

handleHeadlinesCommand == Started(<<HeadlinesProgressText>>, "headlines", "", 0)

\* the alternative handler that lacks the early return on a null match
handleHeadlineDetailCommand_NoGuard(command) ==
  LET n == parseInt(matchHeadlineNumber(command))
  IN  Started(<<DetailProgressText(n)>>, "headlineDetail", "", n)

handleHeadlineDetailCommand(command) ==
  LET numberMatch == matchHeadlineNumber(command)
  IN  IF numberMatch = "" THEN Started(<<SpecifyHeadlineText>>, "none", "", 0)
      ELSE LET headlineNumber == parseInt(numberMatch)
           IN  Started(<<DetailProgressText(headlineNumber)>>, "headlineDetail", "",
                       headlineNumber)

googleSearchTerm(command) ==
  IF includes(command, "search google for") THEN stripThroughPhrase(command, "search google for")
  ELSE IF includes(command, "google search") THEN stripThroughPhrase(command, "google search")
  ELSE ""

handleGoogleSearchCommand(command) ==
  LET searchTerm == googleSearchTerm(command)
  IN  Started(<<GoogleProgressText(searchTerm)>>, "google", searchTerm, 0)

searchTerm(command) ==
  IF includes(command, "search for") THEN stripThroughPhrase(command, "search for")
  ELSE IF includes(command, "find news about") THEN stripThroughPhrase(command, "find news about")
  ELSE IF includes(command, "look up") THEN stripThroughPhrase(command, "look up")
  ELSE ""

handleSearchCommand(command) ==
  LET term == searchTerm(command)
  IN  Started(<<SearchProgressText(term)>>, "search", term, 0)

handleWeatherCommand == Started(<<WeatherProgressText>>, "weather", "", 0)

handleContentAnalysis(command) ==
  IF includes(command, "read this page") THEN Started(<<ReadPageText>>, "content", "", 0)
  ELSE Started(<<SummarizeText>>, "content", "", 0)

handleHelpCommand == Started(<<HelpText>>, "none", "", 0)

\* the alternative in which the stop branch awaits a timer before it cancels
stopBranch_Awaits(present) == Started(<<StopText>>, "content", "", 0)

\* the stop branch: window.speechSynthesis.cancel(), unguarded, then the
\* confirmation; without the object the TypeError goes to the catch clause
stopBranch(present) ==
  IF present THEN Started(<<StopText>>, "none", "", 0)
  ELSE Started(<<ErrorText>>, "none", "", 0)

\* what the branch does before executeCommand first suspends or returns;
\* present tells whether window.speechSynthesis exists (the stop branch
\* calls cancel on it unguarded, and the TypeError goes to the catch clause)
RunBranch(branch, command, lc, present) ==
  CASE branch = "wake" -> Started(<<WakeText>>, "none", "", 0)
    [] branch = "date" -> Started(<<DateText>>, "none", "", 0)
    [] branch = "time" -> Started(<<TimeText>>, "none", "", 0)
    [] branch = "headlines" -> handleHeadlinesCommand
    [] branch = "headlineDetail" -> handleHeadlineDetailCommand(lc)
    [] branch = "google" -> handleGoogleSearchCommand(lc)
    [] branch = "search" -> handleSearchCommand(lc)
    [] branch = "weather" -> handleWeatherCommand
    [] branch = "stop" -> stopBranch(present)
    [] branch = "repeat" -> Started(<<RepeatText>>, "none", "", 0)
    [] branch = "content" -> handleContentAnalysis(lc)
    [] branch = "help" -> handleHelpCommand
    [] branch = "default" -> Started(<<DefaultText(command)>>, "none", "", 0)

\* the alternative in which executeCommand has no finally clause and the flag
\* keeps the value given at entry
finallyClause_Absent == TRUE

\* the value the finally clause gives the processing flag
finallyClause == FALSE

\* executeCommand from its call to its first suspension: the branch, the
\* texts spoken, the lookup awaited, whether the catch clause ran, whether
\* the device's cancel was called directly, and the processing flag it
\* leaves (true while it is suspended, the finally clause's value once it
\* has returned)
executeCommand(command, present) ==
  LET lowercaseCommand == trim(toLowerCase(command))
      branch == Branch(lowercaseCommand)
      h == RunBranch(branch, command, lowercaseCommand, present)
  IN  [branch |-> branch, said |-> h.said, lookup |-> h.lookup, term |-> h.term,
       number |-> h.number,
       caught |-> (branch = "stop" /\ ~present),
       cancelled |-> (branch = "stop" /\ present),
       processing |-> IF h.lookup = "none" THEN finallyClause ELSE TRUE]

(***************************************************************************)
(* The handlers' continuations, run when the awaited lookup settles.       *)
(***************************************************************************)
\* the alternative in which the handlers have no catch clause of their own,
\* so that a rejected lookup reaches executeCommand's catch clause
Resume_NoHandlerCatch(lookup, term, number, outcome) ==
  IF outcome = "fail" THEN <<ErrorText>>
  ELSE CASE lookup \in {"google", "search"} -> <<formatSearchForSpeech(NumResults, term)>>
         [] lookup = "headlines" -> <<formatHeadlinesForSpeech(NumHeadlines)>>
         [] lookup = "headlineDetail" ->
              IF number >= 1 /\ number <= NumHeadlines THEN <<DetailText(number)>>
              ELSE <<HeadlineUnavailableText(number, NumHeadlines)>>
         [] lookup = "weather" -> <<formatWeatherForSpeech>>
         [] lookup = "content" -> <<ContentResultText>>

\* the alternative in which the headline detail handler does not test
\* selectedHeadline: reading a field of undefined throws, and the handler's
\* catch clause speaks its failure text
Resume_NoRangeCheck(lookup, term, number, outcome) ==
  CASE lookup = "headlines" ->
         IF outcome = "ok" THEN <<formatHeadlinesForSpeech(NumHeadlines)>>
         ELSE <<HeadlinesFailText>>
    [] lookup = "headlineDetail" ->
         IF outcome = "ok" /\ number >= 1 /\ number <= NumHeadlines THEN <<DetailText(number)>>
         ELSE <<HeadlineDetailFailText>>
    [] lookup = "google" ->
         IF outcome = "ok" THEN <<formatSearchForSpeech(NumResults, term)>>
         ELSE <<GoogleFailText(term)>>
    [] lookup = "search" ->
         IF outcome = "ok" THEN <<formatSearchForSpeech(NumResults, term)>>
         ELSE <<SearchFailText(term)>>
    [] lookup = "weather" ->
         IF outcome = "ok" THEN <<formatWeatherForSpeech>> ELSE <<WeatherFailText>>
    [] lookup = "content" -> <<ContentResultText>>

\* the texts a handler speaks once its lookup has settled with outcome
\* "ok" (the promise resolved) or "fail" (it rejected)
Resume(lookup, term, number, outcome) ==
  CASE lookup = "headlines" ->
         IF outcome = "ok" THEN <<formatHeadlinesForSpeech(NumHeadlines)>>
         ELSE <<HeadlinesFailText>>
    [] lookup = "headlineDetail" ->
         IF outcome = "ok"
           THEN IF number >= 1 /\ number <= NumHeadlines THEN <<DetailText(number)>>
                ELSE <<HeadlineUnavailableText(number, NumHeadlines)>>
           ELSE <<HeadlineDetailFailText>>
    [] lookup = "google" ->
         IF outcome = "ok" THEN <<formatSearchForSpeech(NumResults, term)>>
         ELSE <<GoogleFailText(term)>>
    [] lookup = "search" ->
         IF outcome = "ok" THEN <<formatSearchForSpeech(NumResults, term)>>
         ELSE <<SearchFailText(term)>>
    [] lookup = "weather" ->
         IF outcome = "ok" THEN <<formatWeatherForSpeech>> ELSE <<WeatherFailText>>
    [] lookup = "content" -> <<ContentResultText>>

(***************************************************************************)
(* State.                                                                  *)
(***************************************************************************)
VARIABLES
  synthPresent,     \* 'speechSynthesis' in window
  synth,            \* window.speechSynthesis: the utterances queued or playing
  lastResponse,     \* Index: lastResponse
  lastSpoken,       \* the argument of the latest speakText call (history)
  welcomePending,   \* Index: the 500 ms welcome timer has not fired yet
  activeMode,       \* Index: activeMode
  isSupported,      \* VoiceControl: isSupported (a recognition class exists)
  isListening,      \* VoiceControl: isListening
  isProcessing,     \* VoiceControl: isProcessing
  transcript,       \* VoiceControl: transcript
  capturing,        \* the mounted component's recognition object is started
  orphanCapturing,  \* a recognition object of an unmounted component is started
  pending,          \* executeCommand calls suspended at a lookup, in call order
  lastDone,         \* the executeCommand call that returned in the latest step (history)
  toasted,          \* the title of the toast raised by the latest step, "" for none
  fault,            \* the latest step ended with an exception nothing caught
  searchQuery,      \* WebNavigator: searchQuery
  isSearching,      \* WebNavigator: isSearching
  searchResults,    \* WebNavigator: searchResults, as the query they were computed for
  lastSearchQuery,  \* WebNavigator: lastSearchQuery
  searches,         \* performRealSearch calls suspended at their timer, in call order
  input,            \* the transcript given to the interpreter on its own
  result            \* what executeCommand made of input

speechVars == <<synth, lastResponse, lastSpoken>>
envVars == <<synthPresent, isSupported>>
captureVars == <<isListening, transcript, capturing, orphanCapturing>>
commandVars == <<isProcessing, pending>>
interpVars == <<input, result>>
webVars == <<searchQuery, isSearching, searchResults, lastSearchQuery, searches>>
vars == <<synthPresent, synth, lastResponse, lastSpoken, welcomePending, activeMode,
          isSupported, isListening, isProcessing, transcript, capturing,
          orphanCapturing, pending, lastDone, toasted, fault, input, result, searchQuery,
          isSearching, searchResults, lastSearchQuery, searches>>

Modes == {"voice", "web", "image", "text"}

NoResult ==
  [branch |-> "none", said |-> <<>>, lookup |-> "none", term |-> "", number |-> 0,
   caught |-> FALSE, cancelled |-> FALSE, processing |-> FALSE]

NoCommand ==
  [branch |-> "none", lookup |-> "none", outcome |-> "none", said |-> <<>>,
   caught |-> FALSE, cancelled |-> FALSE, flag |-> FALSE, orphan |-> FALSE]

(***************************************************************************)
(* Toast titles.                                                           *)
(***************************************************************************)
NoToast == ""
ErrorToast == "Voice Recognition Error"
NotSupportedToast == "Voice Recognition Not Supported"
EmergencyToast == "Emergency Stop"
SearchCompletedToast == "Search Completed"
SearchErrorToast == "Search Error"
ModeToast(mode) ==
  CASE mode = "voice" -> "Voice Mode"
    [] mode = "web" -> "Web Mode"
    [] mode = "image" -> "Image Mode"
    [] mode = "text" -> "Text Mode"

(***************************************************************************)
(* The audio output device and Index.speakText.                            *)
(***************************************************************************)
\* speechSynthesis.cancel(): removes every utterance from the queue
cancel(queue) == <<>>

\* speechSynthesis.speak(utterance): adds the utterance to the queue
speak(queue, text) == Append(queue, text)

\* the alternative speakText that does not cancel first
speakText_NoCancel(queue, text) == IF synthPresent THEN speak(queue, text) ELSE queue

\* the alternative speakText that leaves an utterance in progress alone
speakText_KeepCurrent(queue, text) ==
  IF synthPresent THEN (IF queue = <<>> THEN speak(queue, text) ELSE queue) ELSE queue

\* the alternative speakText without the 'speechSynthesis' in window test
speakText_NoGuard(queue, text) == speak(cancel(queue), text)

\* speakText's effect on the device
speakText(queue, text) == IF synthPresent THEN speak(cancel(queue), text) ELSE queue

\* a run of speakText calls made one after the other in one task
speakAll(queue, texts) ==
  LET after[i \in 0..Len(texts)] ==
        IF i = 0 THEN queue ELSE speakText(after[i - 1], texts[i])
  IN  after[Len(texts)]

Last(seq) == seq[Len(seq)]

\* the state after onSpeech was called with each of texts (not empty)
Say(queue, texts) ==
  /\ synth' = speakAll(queue, texts)
  /\ lastResponse' = Last(texts)
  /\ lastSpoken' = Last(texts)

(***************************************************************************)
(* Inputs: the recognition result events the device delivers.              *)
(***************************************************************************)
Fragment(text, isFinal) == [transcript |-> text, isFinal |-> isFinal]
ResultEvent(resultIndex, results) == [resultIndex |-> resultIndex, results |-> results]

\* the transcripts spoken by the user in the lifecycle specification
Utterances == {"What time is it", "stop", "what's the weather", "search for cats"}

ResultEvents ==
  {ResultEvent(0, <<Fragment(u, TRUE)>>) : u \in Utterances}
  \cup {ResultEvent(0, <<Fragment("what", FALSE)>>),
        ResultEvent(0, <<Fragment("search for", TRUE), Fragment(" cats", TRUE)>>),
        ResultEvent(1, <<Fragment("stop", TRUE), Fragment("what's the weather", TRUE)>>),
        ResultEvent(0, <<Fragment("stop", TRUE), Fragment(" the", FALSE)>>)}

\* the alternative loop that does not test isFinal
finalTranscriptFrom_WithInterim(results, resultIndex) ==
  LET finalTranscript[i \in resultIndex..Len(results)] ==
        IF i = resultIndex THEN ""
        ELSE finalTranscript[i - 1] \o results[i].transcript
  IN  finalTranscript[Len(results)]

\* onresult's loop: the final fragments from index i (0-based) on, joined
finalTranscriptFrom(results, resultIndex) ==
  LET finalTranscript[i \in resultIndex..Len(results)] ==
        IF i = resultIndex THEN ""
        ELSE finalTranscript[i - 1]
               \o (IF results[i].isFinal THEN results[i].transcript ELSE "")
  IN  finalTranscript[Len(results)]

\* the transcripts onresult can commit
Committed == {finalTranscriptFrom(e.results, e.resultIndex) : e \in ResultEvents} \ {""}

\* executeCommand on each of them, computed once
ExecutedTable ==
  {[command |-> t, present |-> p, r |-> executeCommand(t, p)] : t \in Committed, p \in BOOLEAN}

Executed(t, p) == (CHOOSE e \in ExecutedTable : e.command = t /\ e.present = p).r

(***************************************************************************)
(* Initial state: Index and VoiceControl freshly mounted in voice mode.    *)
(***************************************************************************)
InitApp ==
  /\ synthPresent \in BOOLEAN
  /\ isSupported \in BOOLEAN
  /\ synth = <<>>
  /\ lastResponse = ""
  /\ lastSpoken = ""
  /\ welcomePending = TRUE
  /\ activeMode = "voice"
  /\ isListening = FALSE
  /\ isProcessing = FALSE
  /\ transcript = ""
  /\ capturing = FALSE
  /\ orphanCapturing = FALSE
  /\ pending = <<>>
  /\ lastDone = NoCommand
  /\ toasted = NoToast
  /\ fault = FALSE
  /\ searchQuery = ""
  /\ isSearching = FALSE
  /\ searchResults = <<>>
  /\ lastSearchQuery = ""
  /\ searches = <<>>

Init ==
  /\ InitApp
  /\ input = ""
  /\ result = NoResult

(***************************************************************************)
(* Index.                                                                  *)
(***************************************************************************)
\* the welcome timer set by Index's mount effect fires
WelcomeTimer ==
  /\ welcomePending
  /\ welcomePending' = FALSE
  /\ Say(synth, <<WelcomeText>>)
  /\ UNCHANGED <<envVars, activeMode, captureVars, commandVars, interpVars, webVars>>
  /\ lastDone' = NoCommand
  /\ toasted' = NoToast
  /\ fault' = FALSE

\* handleModeChange(mode).  Leaving voice mode unmounts VoiceControl: its
\* state is dropped, while its recognition object (the effect has no
\* cleanup) and its suspended executeCommand calls live on.  Entering voice
\* mode mounts a fresh VoiceControl.  Leaving web mode unmounts WebNavigator
\* in the same way: its state is dropped, its suspended searches live on.
handleModeChange(mode) ==
  /\ activeMode' = mode
  /\ Say(synth, <<ModeText(mode)>>)
  /\ IF activeMode = "voice" /\ mode # "voice"
       THEN /\ isListening' = FALSE
            /\ isProcessing' = FALSE
            /\ transcript' = ""
            /\ capturing' = FALSE
            /\ orphanCapturing' = (orphanCapturing \/ capturing)
            /\ pending' = [i \in 1..Len(pending) |-> [pending[i] EXCEPT !.orphan = TRUE]]
       ELSE UNCHANGED <<captureVars, commandVars>>
  /\ IF activeMode = "web" /\ mode # "web"
       THEN /\ searchQuery' = ""
            /\ isSearching' = FALSE
            /\ searchResults' = <<>>
            /\ lastSearchQuery' = ""
            /\ searches' = [i \in 1..Len(searches) |-> [searches[i] EXCEPT !.orphan = TRUE]]
       ELSE UNCHANGED webVars
  /\ lastDone' = NoCommand
  /\ toasted' = ModeToast(mode)
  /\ fault' = FALSE
  /\ UNCHANGED <<envVars, welcomePending, interpVars>>

\* the Repeat button under the last response: speakText(lastResponse)
RepeatButton ==
  /\ lastResponse # ""
  /\ Say(synth, <<lastResponse>>)
  /\ UNCHANGED <<envVars, welcomePending, activeMode, captureVars, commandVars, interpVars, webVars>>
  /\ lastDone' = NoCommand
  /\ toasted' = NoToast
  /\ fault' = FALSE

\* handleEmergencyStop: without a speechSynthesis object the first statement
\* throws and the rest of the handler does not run
handleEmergencyStop ==
  /\ IF synthPresent
       THEN /\ synth' = cancel(synth)
            /\ lastResponse' = EmergencyText
            /\ toasted' = EmergencyToast
            /\ fault' = FALSE
       ELSE /\ UNCHANGED <<synth, lastResponse>>
            /\ toasted' = NoToast
            /\ fault' = TRUE
  /\ UNCHANGED <<lastSpoken, envVars, welcomePending, activeMode, captureVars, commandVars,
                 interpVars, webVars>>
  /\ lastDone' = NoCommand

\* an utterance finishes playing and leaves the device's queue
UtteranceEnd ==
  /\ synth # <<>>
  /\ synth' = Tail(synth)
  /\ UNCHANGED <<lastResponse, lastSpoken, envVars, welcomePending, activeMode, captureVars,
                 commandVars, interpVars, webVars>>
  /\ lastDone' = NoCommand
  /\ toasted' = NoToast
  /\ fault' = FALSE

(***************************************************************************)
(* VoiceControl.                                                           *)
(***************************************************************************)
\* the alternative toggleListening without the isSupported test: the start
\* branch runs with a null recognitionRef (the optional call does nothing)
toggleListening_NoSupportCheck ==
  /\ activeMode = "voice"
  /\ ~isProcessing
  /\ IF isListening
       THEN /\ capturing' = FALSE
            /\ isListening' = FALSE
            /\ Say(synth, <<ListeningStoppedText>>)
            /\ UNCHANGED <<transcript, orphanCapturing>>
       ELSE /\ transcript' = ""
            /\ capturing' = isSupported
            /\ isListening' = TRUE
            /\ Say(synth, <<ListeningStartedText>>)
            /\ UNCHANGED orphanCapturing
  /\ toasted' = NoToast
  /\ fault' = FALSE
  /\ UNCHANGED <<envVars, welcomePending, activeMode, commandVars, interpVars, webVars>>
  /\ lastDone' = NoCommand

\* the alternative toggleListening whose stop branch does not call
\* recognition.stop()
toggleListening_StopKeepsDevice ==
  /\ activeMode = "voice"
  /\ ~isProcessing
  /\ IF ~isSupported
       THEN /\ toasted' = NotSupportedToast
            /\ fault' = FALSE
            /\ UNCHANGED <<speechVars, captureVars>>
       ELSE IF isListening
         THEN /\ isListening' = FALSE
              /\ Say(synth, <<ListeningStoppedText>>)
              /\ toasted' = NoToast
              /\ fault' = FALSE
              /\ UNCHANGED <<capturing, transcript, orphanCapturing>>
         ELSE /\ transcript' = ""
              /\ capturing' = TRUE
              /\ isListening' = TRUE
              /\ Say(synth, <<ListeningStartedText>>)
              /\ toasted' = NoToast
              /\ fault' = FALSE
              /\ UNCHANGED orphanCapturing
  /\ UNCHANGED <<envVars, welcomePending, activeMode, commandVars, interpVars, webVars>>
  /\ lastDone' = NoCommand

\* toggleListening, reachable through the round button, which is disabled
\* while isProcessing
toggleListening ==
  /\ activeMode = "voice"
  /\ ~isProcessing
  /\ IF ~isSupported
       THEN /\ toasted' = NotSupportedToast
            /\ fault' = FALSE
            /\ UNCHANGED <<speechVars, captureVars>>
       ELSE IF isListening
         THEN /\ capturing' = FALSE
              /\ isListening' = FALSE
              /\ Say(synth, <<ListeningStoppedText>>)
              /\ toasted' = NoToast
              /\ fault' = FALSE
              /\ UNCHANGED <<transcript, orphanCapturing>>
         ELSE /\ transcript' = ""
              /\ capturing' = TRUE
              /\ isListening' = TRUE
              /\ Say(synth, <<ListeningStartedText>>)
              /\ toasted' = NoToast
              /\ fault' = FALSE
              /\ UNCHANGED orphanCapturing
  /\ UNCHANGED <<envVars, welcomePending, activeMode, commandVars, interpVars, webVars>>
  /\ lastDone' = NoCommand

\* stopAllAudio: without a speechSynthesis object the first statement throws
stopAllAudio ==
  /\ activeMode = "voice"
  /\ IF synthPresent THEN Say(cancel(synth), <<StopAllText>>) ELSE UNCHANGED speechVars
  /\ UNCHANGED <<envVars, welcomePending, activeMode, captureVars, commandVars, interpVars, webVars>>
  /\ lastDone' = NoCommand
  /\ toasted' = NoToast
  /\ fault' = ~synthPresent

\* the alternative onerror that starts the recognition object again
onerror_Restarts ==
  /\ capturing
  /\ capturing' = TRUE
  /\ isListening' = TRUE
  /\ toasted' = ErrorToast
  /\ fault' = FALSE
  /\ UNCHANGED <<speechVars, envVars, welcomePending, activeMode, transcript, orphanCapturing,
                 commandVars, interpVars, webVars>>
  /\ lastDone' = NoCommand

\* onerror of the mounted component's recognition object: the device has
\* stopped capturing
onerror ==
  /\ capturing
  /\ capturing' = FALSE
  /\ isListening' = FALSE
  /\ toasted' = ErrorToast
  /\ fault' = FALSE
  /\ UNCHANGED <<speechVars, envVars, welcomePending, activeMode, transcript, orphanCapturing,
                 commandVars, interpVars, webVars>>
  /\ lastDone' = NoCommand

\* onend of the mounted component's recognition object
onend ==
  /\ capturing
  /\ capturing' = FALSE
  /\ isListening' = FALSE
  /\ toasted' = NoToast
  /\ fault' = FALSE
  /\ UNCHANGED <<speechVars, envVars, welcomePending, activeMode, transcript, orphanCapturing,
                 commandVars, interpVars, webVars>>
  /\ lastDone' = NoCommand

\* a recognition object left behind by an unmounted component stops, by
\* its onend or by its onerror (whose toast is still shown)
orphanEnd ==
  /\ orphanCapturing
  /\ orphanCapturing' = FALSE
  /\ toasted' \in {NoToast, ErrorToast}
  /\ fault' = FALSE
  /\ UNCHANGED <<speechVars, envVars, welcomePending, activeMode, isListening, transcript,
                 capturing, commandVars, interpVars, webVars>>
  /\ lastDone' = NoCommand

\* the handler suspended by the executeCommand call r
Suspended(r, orphan) ==
  [branch |-> r.branch, lookup |-> r.lookup, term |-> r.term, number |-> r.number,
   said |-> r.said, orphan |-> orphan]

\* the record of the executeCommand call r that returned without suspending
Returned(r, orphan) ==
  [branch |-> r.branch, lookup |-> "none", outcome |-> "none", said |-> r.said,
   caught |-> r.caught, cancelled |-> r.cancelled, flag |-> r.processing, orphan |-> orphan]

\* onresult(event) of a started recognition object: the mounted component's
\* (orphan = FALSE) or one left behind by an unmounted component, whose
\* state setters no longer have an effect
onresult(event, orphan) ==
  /\ IF orphan THEN orphanCapturing ELSE capturing
  /\ LET finalTranscript == finalTranscriptFrom(event.results, event.resultIndex)
         r == Executed(finalTranscript, synthPresent)
     IN  IF finalTranscript = ""
           THEN /\ lastDone' = NoCommand
                /\ UNCHANGED <<speechVars, transcript, commandVars>>
           ELSE /\ r.lookup = "none" \/ Len(pending) < MaxPending
                /\ transcript' = IF orphan THEN transcript ELSE finalTranscript
                /\ Say(IF r.cancelled THEN cancel(synth) ELSE synth, r.said)
                /\ isProcessing' = IF orphan THEN isProcessing ELSE r.processing
                /\ IF r.lookup = "none"
                     THEN /\ lastDone' = Returned(r, orphan)
                          /\ UNCHANGED pending
                     ELSE /\ pending' = Append(pending, Suspended(r, orphan))
                          /\ lastDone' = NoCommand
  /\ toasted' = NoToast
  /\ fault' = FALSE
  /\ UNCHANGED <<envVars, welcomePending, activeMode, isListening, capturing, orphanCapturing,
                 interpVars, webVars>>

\* timers fire in the order of their expiry: a lookup started later settles
\* before one started earlier only if its delay is strictly shorter
MaySettle(i) ==
  \A j \in 1..(i - 1) : LookupDelay(pending[j].lookup) > LookupDelay(pending[i].lookup)

Outcomes(lookup) == IF CanFail(lookup) THEN {"ok", "fail"} ELSE {"ok"}

RemoveAt(seq, i) == SubSeq(seq, 1, i - 1) \o SubSeq(seq, i + 1, Len(seq))

\* the lookup awaited by the i-th suspended executeCommand call settles: the
\* handler speaks its result or its fallback, executeCommand's finally
\* clause runs
LookupDone(i, outcome) ==
  /\ i \in 1..Len(pending)
  /\ outcome \in Outcomes(pending[i].lookup)
  /\ MaySettle(i)
  /\ LET h == pending[i]
         texts == Resume(h.lookup, h.term, h.number, outcome)
         flag == IF h.orphan THEN isProcessing ELSE finallyClause
     IN  /\ Say(synth, texts)
         /\ pending' = RemoveAt(pending, i)
         /\ isProcessing' = flag
         /\ lastDone' = [branch |-> h.branch, lookup |-> h.lookup, outcome |-> outcome,
                         said |-> h.said \o texts, caught |-> FALSE, cancelled |-> FALSE,
                         flag |-> flag, orphan |-> h.orphan]
  /\ toasted' = NoToast
  /\ fault' = FALSE
  /\ UNCHANGED <<envVars, welcomePending, activeMode, captureVars, interpVars, webVars>>

(***************************************************************************)
(* The lifecycle specification.                                            *)
(***************************************************************************)
Next ==
  \/ WelcomeTimer
  \/ \E mode \in Modes : handleModeChange(mode)
  \/ RepeatButton
  \/ handleEmergencyStop
  \/ UtteranceEnd
  \/ toggleListening
  \/ stopAllAudio
  \/ onerror
  \/ onend
  \/ orphanEnd
  \/ \E event \in ResultEvents, orphan \in BOOLEAN : onresult(event, orphan)
  \/ \E i \in 1..MaxPending, outcome \in {"ok", "fail"} : LookupDone(i, outcome)

Spec == Init /\ [][Next]_vars

\* every lookup timer fires in the end
FairSpec ==
  /\ Init
  /\ [][Next]_vars
  /\ \A i \in 1..MaxPending : WF_vars(\E outcome \in {"ok", "fail"} : LookupDone(i, outcome))

(***************************************************************************)
(* The interpreter on its own: executeCommand applied to every transcript  *)
(* made of an opening, up to MaxChunks vocabulary phrases and an ending.   *)
(***************************************************************************)
Vocabulary ==
  {"Hey BlindAssist", "today", "time", "headlines", "what's happening",
   "tell me more about headline", "search google for", "google search", "search for",
   "find news about", "look up", "weather", "Stop", "quiet", "repeat", "read this page",
   "summarize this", "help"}

Openings == {" ", "please "}
Endings == {"", " cats", " 3", " 12 "}

\* the phrases of chunks, separated by single spaces
JoinChunks(chunks) ==
  LET joined[i \in 1..Len(chunks)] ==
        IF i = 1 THEN chunks[1] ELSE joined[i - 1] \o " " \o chunks[i]
  IN  joined[Len(chunks)]

\* the commands the component's "Enhanced Voice Commands" list advertises
Advertised ==
  {"What's today's date?", "What are today's headlines?", "Tell me more about headline 2",
   "Search Google for cats", "What's the weather?", "Read this page", "Help", "Stop",
   "Hey BlindAssist"}

Inputs ==
  {opening \o JoinChunks(chunks) \o ending :
     opening \in Openings,
     chunks \in UNION {[1..n -> Vocabulary] : n \in 1..MaxChunks},
     ending \in Endings}
  \cup Advertised

InterpInit ==
  /\ InitApp
  /\ isSupported
  /\ input \in Inputs
  /\ result = NoResult

\* executeCommand(input) runs to its first suspension or to its return
Interpret ==
  /\ result = NoResult
  /\ result' = executeCommand(input, synthPresent)
  /\ UNCHANGED <<speechVars, envVars, welcomePending, activeMode, captureVars, commandVars,
                 lastDone, toasted, fault, webVars, input>>

InterpNext == Interpret

InterpSpec == InterpInit /\ [][InterpNext]_vars

(***************************************************************************)
(* One command from its commit to its last utterance: the component is     *)
(* started, one final transcript is committed, its lookup settles.         *)
(***************************************************************************)
DetailRequest(n) == "Tell me more about headline " \o ToString(n)

\* headline numbers for which getTodaysHeadlines returns no element
OutOfRange == {0, 6, 12}

RepeatRequests == {"repeat", "Repeat that please", "can you repeat"}

HandlerInputs ==
  {DetailRequest(n) : n \in 1..NumHeadlines} \cup {DetailRequest(n) : n \in OutOfRange}
  \cup RepeatRequests
  \cup {"more about headline", "what's the weather", "stop"}

HandlerInit ==
  /\ InitApp
  /\ isSupported
  /\ input \in HandlerInputs
  /\ result = NoResult

\* onresult with the one final fragment input: executeCommand(input) runs to
\* its first suspension or to its return
Commit ==
  /\ capturing
  /\ result = NoResult
  /\ LET r == executeCommand(input, synthPresent)
     IN  /\ result' = r
         /\ transcript' = input
         /\ Say(IF r.cancelled THEN cancel(synth) ELSE synth, r.said)
         /\ isProcessing' = r.processing
         /\ IF r.lookup = "none"
              THEN /\ lastDone' = Returned(r, FALSE)
                   /\ UNCHANGED pending
              ELSE /\ pending' = Append(pending, Suspended(r, FALSE))
                   /\ lastDone' = NoCommand
  /\ toasted' = NoToast
  /\ fault' = FALSE
  /\ UNCHANGED <<envVars, welcomePending, activeMode, isListening, capturing, orphanCapturing,
                 input, webVars>>

HandlerNext ==
  \/ WelcomeTimer
  \/ RepeatButton
  \/ UtteranceEnd
  \/ toggleListening
  \/ Commit
  \/ \E i \in 1..MaxPending, outcome \in {"ok", "fail"} : LookupDone(i, outcome)

HandlerSpec == HandlerInit /\ [][HandlerNext]_vars

(***************************************************************************)
(* WebNavigator: the query field, the search button and the search timer.  *)
(***************************************************************************)
\* an unpaired surrogate code unit, for which encodeURIComponent throws a
\* URIError, is written ^
LoneSurrogate == "^"

WellFormed(query) == ~includes(query, LoneSurrogate)

\* the queries typed into the field
Queries == {"", " ", "cats", "dogs", "^"}

WebModes == {"voice", "web"}

\* the results built from a query, by their titles
realTimeResults(query) ==
  <<query \o " - Latest News and Updates", query \o " - Wikipedia",
    query \o " - Research and Analysis", query \o " - Market Data and Trends">>

\* onChange of the query field, which is disabled while isSearching
setSearchQuery(query) ==
  /\ activeMode = "web"
  /\ ~isSearching
  /\ searchQuery' = query
  /\ UNCHANGED <<speechVars, envVars, welcomePending, activeMode, captureVars, commandVars,
                 interpVars, isSearching, searchResults, lastSearchQuery, searches>>
  /\ lastDone' = NoCommand
  /\ toasted' = NoToast
  /\ fault' = FALSE

\* performRealSearch up to its await, called by the search button or by the
\* Enter key in the query field, both disabled while isSearching
performRealSearch ==
  /\ activeMode = "web"
  /\ ~isSearching
  /\ IF trim(searchQuery) = ""
       THEN /\ Say(synth, <<EnterQueryText>>)
            /\ UNCHANGED <<isSearching, lastSearchQuery, searches>>
       ELSE /\ Len(searches) < MaxSearches
            /\ isSearching' = TRUE
            /\ lastSearchQuery' = searchQuery
            /\ Say(synth, <<ExecutingSearchText(searchQuery)>>)
            /\ searches' = Append(searches, [query |-> searchQuery, orphan |-> FALSE])
  /\ UNCHANGED <<envVars, welcomePending, activeMode, captureVars, commandVars, interpVars,
                 searchQuery, searchResults>>
  /\ lastDone' = NoCommand
  /\ toasted' = NoToast
  /\ fault' = FALSE

\* the 2500 ms timer of the oldest suspended performRealSearch call fires:
\* the results are built from the query of the call (encodeURIComponent
\* throws on a malformed one, which leads to the catch clause), stored and
\* announced; the state setters of an unmounted component have no effect
SearchDone ==
  /\ searches # <<>>
  /\ LET s == Head(searches)
     IN  /\ IF s.orphan THEN UNCHANGED <<isSearching, searchResults>>
            ELSE /\ isSearching' = FALSE
                 /\ searchResults' =
                      IF WellFormed(s.query) THEN realTimeResults(s.query) ELSE searchResults
         /\ Say(synth, <<IF WellFormed(s.query) THEN SearchCompletedText(s.query)
                          ELSE SearchErrorText(s.query)>>)
         /\ toasted' = IF WellFormed(s.query) THEN SearchCompletedToast ELSE SearchErrorToast
  /\ searches' = Tail(searches)
  /\ UNCHANGED <<envVars, welcomePending, activeMode, captureVars, commandVars, interpVars,
                 searchQuery, lastSearchQuery>>
  /\ lastDone' = NoCommand
  /\ fault' = FALSE

WebNext ==
  \/ WelcomeTimer
  \/ UtteranceEnd
  \/ \E mode \in WebModes : handleModeChange(mode)
  \/ \E query \in Queries : setSearchQuery(query)
  \/ performRealSearch
  \/ SearchDone

WebSpec == Init /\ [][WebNext]_vars

(***************************************************************************)
(* Properties of the speech output (lifecycle specification).              *)
(***************************************************************************)
\* C1: in every reachable state the audio output device holds at most one
\* queued-or-playing utterance, whatever the interleaving of speak requests,
\* stopAll, emergency stops and Stop intents.
C1_AtMostOneUtterance == Len(synth) <= 1

\* C1 witness: a lookup result is on the device, requested while other
\* speak sources have acted before it.
C1_Witness ==
  /\ synth = <<formatWeatherForSpeech>>
  /\ lastDone.lookup = "weather"
  /\ ~welcomePending

\* C2: speakText cancels and then enqueues, so whatever the device holds is
\* the text of the newest speak request; a text requested earlier is never
\* on the device once a newer one was requested.
C2_NewestWins == synth = <<>> \/ synth = <<lastSpoken>>

\* C2 witness: a search handler spoke its progress text and then, the lookup
\* settled, its result; the device holds the result alone.
C2_Witness ==
  /\ lastDone.lookup = "search"
  /\ lastDone.said = <<SearchProgressText("cats"), formatSearchForSpeech(NumResults, "cats")>>
  /\ synth = <<formatSearchForSpeech(NumResults, "cats")>>

(***************************************************************************)
(* Properties of command processing (lifecycle specification).             *)
(***************************************************************************)
\* C3, as claimed: at most one command handler is in flight (suspended at
\* its lookup) at any time.
C3_OneCommandInFlight == Len(pending) <= 1

\* the executeCommand calls of the mounted component that are suspended
MountedPending == {i \in 1..Len(pending) : ~pending[i].orphan}

\* C4: the processing flag is true when executeCommand suspends at a lookup,
\* it is false once no call of the mounted component is suspended any more
\* (every exit path clears it), and with lookup timers that fire it never
\* stays true for ever.
C4_ProcessingCleared ==
  /\ [][(Len(pending') > Len(pending) /\ ~pending'[Len(pending')].orphan) => isProcessing']_vars
  /\ [](MountedPending = {} => ~isProcessing)
  /\ (isProcessing ~> ~isProcessing)

\* C4 witness: the exit path through the catch clause (a Stop intent without
\* a speechSynthesis object) was taken and the flag is false.
C4_Witness ==
  /\ lastDone.branch = "stop"
  /\ lastDone.caught
  /\ ~lastDone.orphan
  /\ ~isProcessing

\* the number of texts of said that contain phrase
CountContaining(said, phrase) == Cardinality({i \in 1..Len(said) : includes(said[i], phrase)})

\* C5: when the weather lookup fails, the handler speaks exactly one
\* fallback text (the apology), the failure does not reach executeCommand's
\* catch clause, and the processing flag is false afterwards.
C5_WeatherFallback ==
  (lastDone.lookup = "weather" /\ lastDone.outcome = "fail") =>
    /\ lastDone.said = <<WeatherProgressText, WeatherFailText>>
    /\ CountContaining(lastDone.said, "I could not retrieve weather information") = 1
    /\ CountContaining(lastDone.said, "I encountered an error") = 0
    /\ ~lastDone.caught
    /\ lastSpoken = WeatherFailText
    /\ (~lastDone.orphan => ~isProcessing)

\* C5 witness: a weather handler of the mounted component has just spoken
\* its fallback.
C5_Witness ==
  /\ lastDone.lookup = "weather"
  /\ lastDone.outcome = "fail"
  /\ ~lastDone.orphan
  /\ lastResponse = WeatherFailText

(***************************************************************************)
(* Properties of the interpreter (interpreter specification).              *)
(***************************************************************************)
\* the command as executeCommand reads it
Lowered == trim(toLowerCase(input))

Interpreted == result # NoResult

\* the ordered rule list of the command interpreter's contract: rule number,
\* intent and phrases; rule 12 matches every transcript
Rules ==
  <<[intent |-> "WakeWord", phrases |-> {"hey blindassist", "blindassist"}],
    [intent |-> "DateTime", phrases |-> {"what day", "today", "date", "time"}],
    [intent |-> "Headlines", phrases |-> {"headlines", "today's news", "what's happening"}],
    [intent |-> "HeadlineDetail",
     phrases |-> {"tell me more about headline", "more about headline"}],
    [intent |-> "GoogleSearch", phrases |-> {"search google for", "google search"}],
    [intent |-> "SearchWeb", phrases |-> {"search for", "find news about", "look up"}],
    [intent |-> "Weather", phrases |-> {"weather"}],
    [intent |-> "Stop", phrases |-> {"stop", "quiet", "pause"}],
    [intent |-> "Repeat", phrases |-> {"repeat"}],
    [intent |-> "ReadPage", phrases |-> {"read this page", "summarize this"}],
    [intent |-> "Help", phrases |-> {"help"}],
    [intent |-> "Unrecognized", phrases |-> {}]>>

RuleMatches(k, lc) == k = Len(Rules) \/ \E p \in Rules[k].phrases : includes(lc, p)

\* the intent of the lowest-numbered matching rule
FirstMatchIntent(lc) ==
  LET firstFrom[k \in 1..Len(Rules)] == IF RuleMatches(k, lc) THEN k ELSE firstFrom[k + 1]
  IN  Rules[firstFrom[1]].intent

\* the intent each branch of the cascade stands for
IntentOfBranch(branch) ==
  CASE branch = "wake" -> "WakeWord"
    [] branch \in {"date", "time"} -> "DateTime"
    [] branch = "headlines" -> "Headlines"
    [] branch = "headlineDetail" -> "HeadlineDetail"
    [] branch = "google" -> "GoogleSearch"
    [] branch = "search" -> "SearchWeb"
    [] branch = "weather" -> "Weather"
    [] branch = "stop" -> "Stop"
    [] branch = "repeat" -> "Repeat"
    [] branch = "content" -> "ReadPage"
    [] branch = "help" -> "Help"
    [] branch = "default" -> "Unrecognized"

\* C6: for every transcript the branch the if-cascade takes is the intent of
\* the lowest-numbered matching rule of the 12-rule list, evaluated on the
\* lower-cased, trimmed transcript.
C6_CascadeIsFirstMatch ==
  Interpreted => IntentOfBranch(result.branch) = FirstMatchIntent(Lowered)

\* C6 witness: a transcript matching rules 7 and 8 was classified by rule 7.
C6_Witness ==
  /\ Interpreted
  /\ includes(Lowered, "weather")
  /\ includes(Lowered, "stop")
  /\ result.branch = "weather"

\* C7: a transcript containing "blindassist" is classified as WakeWord and
\* only the activation message is spoken, whatever else it contains.
C7_WakeWordWins ==
  (Interpreted /\ includes(toLowerCase(input), "blindassist")) =>
    /\ result.branch = "wake"
    /\ result.said = <<WakeText>>
    /\ result.lookup = "none"
    /\ ~result.cancelled
    /\ ~result.caught

\* C7 witness: the transcript also contains a stop phrase.
C7_Witness ==
  /\ Interpreted
  /\ includes(Lowered, "blindassist")
  /\ includes(Lowered, "stop")
  /\ result.said = <<WakeText>>

\* no phrase of rules 1 to 4 occurs in lc
NoEarlierRule(lc) == \A k \in 1..4 : ~RuleMatches(k, lc)

HasGooglePhrase(lc) == includes(lc, "search google for") \/ includes(lc, "google search")

HasSearchPhrase(lc) ==
  includes(lc, "search for") \/ includes(lc, "find news about") \/ includes(lc, "look up")

\* C8: the engine-specific search rule is tried before the general one, and
\* the two example transcripts give GoogleSearch("cats") and
\* SearchWeb("cats").
C8_GoogleBeforeGeneral ==
  Interpreted =>
    LET lc == Lowered
        google == HasGooglePhrase(lc)
        early == ~NoEarlierRule(lc)
    IN  /\ (google /\ ~early) =>
             (result.branch = "google" /\ result.lookup = "google"
              /\ result.said = <<GoogleProgressText(result.term)>>)
        /\ (~google /\ HasSearchPhrase(lc) /\ ~early) =>
             (result.branch = "search" /\ result.lookup = "search"
              /\ result.said = <<SearchProgressText(result.term)>>)
        /\ lc = "please search google for cats" =>
             (result.branch = "google" /\ result.term = "cats")
        /\ lc = "please search for cats" =>
             (result.branch = "search" /\ result.term = "cats")

\* C8 witness: a transcript with a Google phrase and a general phrase went to
\* the Google handler.
C8_Witness ==
  /\ Interpreted
  /\ HasGooglePhrase(Lowered)
  /\ HasSearchPhrase(Lowered)
  /\ result.branch = "google"

\* what follows the first occurrence of phrase in s, leading white space
\* dropped
AfterFirstOccurrence(s, phrase) ==
  LET first == CHOOSE i \in 1..Len(s) :
                 OccursAt(s, phrase, i) /\ \A j \in 1..(i - 1) : ~OccursAt(s, phrase, j)
  IN  SubSeq(s, SkipSpaces(s, first + Len(phrase)), Len(s))

\* C9, as claimed: the search argument is the remainder of the transcript
\* after the first occurrence of a phrase of the matched rule.
C9_AfterFirstOccurrence ==
  (Interpreted /\ result.branch \in {"google", "search"}) =>
    LET lc == Lowered
    IN  \E p \in Rules[IF result.branch = "google" THEN 5 ELSE 6].phrases :
          includes(lc, p) /\ result.term = AfterFirstOccurrence(lc, p)

\* C10: a headline-detail transcript with an integer after "headline" starts
\* the detail lookup for that integer; one without produces the clarifying
\* text only, starts no lookup, raises no error and leaves the processing
\* flag false.
C10_HeadlineDetailNumber ==
  (Interpreted /\ result.branch = "headlineDetail") =>
    LET lc == Lowered
    IN  /\ lc = "tell me more about headline 3" =>
             (result.lookup = "headlineDetail" /\ result.number = 3)
        /\ lc = "tell me more about headline 12" =>
             (result.lookup = "headlineDetail" /\ result.number = 12)
        /\ lc = "tell me more about headline" =>
             (result.lookup = "none" /\ result.said = <<SpecifyHeadlineText>>)
        /\ result.lookup = "headlineDetail" =>
             /\ includes(lc, "headline " \o ToString(result.number))
             /\ result.said = <<DetailProgressText(result.number)>>
             /\ result.processing
        /\ result.lookup # "headlineDetail" =>
             /\ \A d \in 0..9 : ~includes(lc, "headline " \o ToString(d))
             /\ result.lookup = "none"
             /\ result.said = <<SpecifyHeadlineText>>
             /\ ~result.caught
             /\ ~result.processing

\* C10 witness: "tell me more about headline" was interpreted.
C10_Witness ==
  /\ Interpreted
  /\ Lowered = "tell me more about headline"
  /\ result.said = <<SpecifyHeadlineText>>

\* C11, as claimed: a transcript without a wake word that contains a headline
\* listing phrase ("headlines", "today's news", "what's happening") goes to
\* the headlines handler, "what are today's headlines" included.
C11_ListingPhrasesReachHeadlines ==
  Interpreted =>
    LET lc == Lowered
    IN  (~includes(lc, "blindassist") /\ \E p \in Rules[3].phrases : includes(lc, p)) =>
          /\ result.branch = "headlines"
          /\ result.lookup = "headlines"
          /\ result.said = <<HeadlinesProgressText>>

(***************************************************************************)
(* Stop intent, stopAllAudio and the emergency stop (lifecycle             *)
(* specification).                                                         *)
(***************************************************************************)
\* C12: a Stop intent is handled without any await (executeCommand returns
\* in the step that dispatched it); with an output device its cancel is
\* called in that step and the device then holds the stop confirmation
\* alone, so the utterance that was playing is gone, whether or not another
\* command's lookup is pending; the processing flag is false afterwards.
C12_StopCancelsAtOnce ==
  lastDone.branch = "stop" =>
    /\ lastDone.lookup = "none"
    /\ synthPresent => (lastDone.cancelled /\ lastDone.said = <<StopText>>
                        /\ synth = <<StopText>>)
    /\ synth \in {<<>>, <<StopText>>}
    /\ (~lastDone.orphan => ~isProcessing)

\* C12 witness: a Stop intent was handled while another command's lookup was
\* pending.
C12_Witness ==
  /\ lastDone.branch = "stop"
  /\ lastDone.cancelled
  /\ ~lastDone.orphan
  /\ pending # <<>>
  /\ synth = <<StopText>>

\* C13, as claimed: stopAll cancels with no replacement, so that right after
\* stopAllAudio or the emergency stop returns the device holds no utterance.
C13_StopAllLeavesNothing ==
  [][(stopAllAudio \/ handleEmergencyStop) => synth' = <<>>]_vars

(***************************************************************************)
(* Properties of capture (lifecycle specification).                        *)
(***************************************************************************)
\* C14: without a recognition capability every start request raises the
\* not-supported toast and changes nothing else (isListening stays false, no
\* recognition object is started, the transcript and the speech output are
\* left alone), and this stays so for the whole session.
C14_UnsupportedStart ==
  /\ [](~isSupported => (~isListening /\ ~capturing /\ ~orphanCapturing))
  /\ [][(toggleListening /\ ~isSupported) =>
          /\ toasted' = NotSupportedToast
          /\ UNCHANGED <<isListening, capturing, orphanCapturing, transcript, synth,
                         lastResponse, lastSpoken, isProcessing, pending>>]_vars

\* C14 witness: a start request was refused while an utterance was on the
\* device, which is still there.
C14_Witness ==
  /\ ~isSupported
  /\ toasted = NotSupportedToast
  /\ synth = <<WelcomeText>>
  /\ ~isListening

\* the state after speakText(text) was called once and nothing else touched
\* the speech output
SpokeOnce(text) ==
  /\ lastSpoken' = text
  /\ lastResponse' = text
  /\ synth' = IF synthPresent THEN <<text>> ELSE <<>>

C16_StopIsIdempotent ==
  [][(toggleListening /\ isSupported /\ ~isListening /\ lastSpoken = ListeningStoppedText) =>
      (~isListening' /\ ~capturing')]_vars

\* C17: after an error event and after an end event isListening is false and
\* the recognition object is not capturing; it is started again only by a
\* start request (toggleListening); the error event raises the error toast,
\* the end event raises none.
C17_ErrorAndEnd ==
  /\ [][onerror => (~isListening' /\ ~capturing' /\ toasted' = ErrorToast)]_vars
  /\ [][onend => (~isListening' /\ ~capturing' /\ toasted' = NoToast)]_vars
  /\ [][(~capturing /\ capturing') => (toggleListening /\ isSupported /\ ~isListening)]_vars
  /\ [](~capturing => ~isListening)

\* C17 witness: the recognition object reported an error after listening
\* had been started.
C17_Witness ==
  /\ toasted = ErrorToast
  /\ isSupported
  /\ ~isListening
  /\ ~capturing
  /\ ~orphanCapturing
  /\ lastSpoken = ListeningStartedText

\* the fragments of event marked final, from resultIndex (0-based) to the end
FinalFragments(event) ==
  SelectSeq(SubSeq(event.results, event.resultIndex + 1, Len(event.results)),
            LAMBDA f : f.isFinal)

\* the texts of fragments, concatenated in order
ConcatTranscripts(fragments) ==
  LET joined[i \in 0..Len(fragments)] ==
        IF i = 0 THEN "" ELSE joined[i - 1] \o fragments[i].transcript
  IN  joined[Len(fragments)]

\* for each result event, the transcript it commits and what executeCommand
\* makes of it
Expected ==
  [event \in ResultEvents |->
     LET text == ConcatTranscripts(FinalFragments(event))
     IN  [text |-> text,
          call |-> [p \in BOOLEAN |-> IF text = "" THEN NoResult ELSE executeCommand(text, p)]]]

\* C18: a result event commits the concatenation, in order, of its final
\* fragments from resultIndex on; when that is empty (interim fragments
\* only) nothing changes: no executeCommand call, no transcript shown;
\* otherwise the transcript shown is that concatenation and executeCommand is
\* called on it exactly once (it either returns or suspends at one lookup).
C18_CommitFinalFragments ==
  [][\A event \in ResultEvents, orphan \in BOOLEAN :
       onresult(event, orphan) =>
         LET text == Expected[event].text
             call == Expected[event].call[synthPresent]
         IN  IF text = ""
               THEN /\ UNCHANGED <<transcript, speechVars, commandVars>>
                    /\ lastDone' = NoCommand
               ELSE /\ (~orphan => transcript' = text)
                    /\ IF call.lookup = "none"
                         THEN /\ pending' = pending
                              /\ lastDone'.branch = call.branch
                              /\ lastDone'.said = call.said
                         ELSE /\ Len(pending') = Len(pending) + 1
                              /\ pending'[Len(pending')].branch = call.branch
                              /\ pending'[Len(pending')].said = call.said
                              /\ lastDone' = NoCommand]_vars

\* C18 witness: a transcript was committed and shown, and its one
\* executeCommand call is suspended at the weather lookup.
C18_Witness ==
  /\ transcript = "what's the weather"
  /\ pending # <<>>
  /\ pending[Len(pending)].branch = "weather"

\* C19: the transcript "what time is it" takes the time branch; the speaker
\* gets one speakText call, with the time-and-date text; no lookup is
\* started, the catch clause does not run and the processing flag is false
\* afterwards.
C19_WhatTimeIsIt ==
  [][\A orphan \in BOOLEAN :
       onresult(ResultEvent(0, <<Fragment("What time is it", TRUE)>>), orphan) =>
         /\ lastDone'.branch = "time"
         /\ lastDone'.said = <<TimeText>>
         /\ ~lastDone'.caught
         /\ SpokeOnce(TimeText)
         /\ pending' = pending
         /\ lastDone'.flag = FALSE
         /\ (~orphan => ~isProcessing')]_vars

\* C19 witness: "What time is it" was committed and answered.
C19_Witness ==
  /\ transcript = "What time is it"
  /\ lastDone.branch = "time"
  /\ synth = <<TimeText>>
  /\ ~isProcessing

\* C20: without an audio output capability speakText makes no call on the
\* device (nothing is ever queued) and the text of the latest speakText call
\* is still stored as the last response.
C20_SilentWithoutDevice ==
  ~synthPresent => (synth = <<>> /\ lastResponse = lastSpoken)

\* C20 witness: the welcome message was requested without a device.
C20_Witness ==
  /\ ~synthPresent
  /\ ~welcomePending
  /\ lastResponse = WelcomeText
  /\ synth = <<>>

(***************************************************************************)
(* Faults (lifecycle specification).                                       *)
(***************************************************************************)
\* C21, as claimed: no operation ends with an exception that nothing
\* catches, in any environment.
C21_NoUnhandledFault == ~fault

(***************************************************************************)
(* Capture and lookups in flight (lifecycle specification).                *)
(***************************************************************************)
\* C22, as claimed: while the component is listening and one of its command
\* handlers awaits a lookup, the user can stop capture (toggleListening can
\* be invoked).
C22_StopAvailableWhilePending ==
  (activeMode = "voice" /\ isListening /\ MountedPending # {}) => ENABLED toggleListening

\* C26, as claimed: the processing flag of the mounted component is true
\* whenever one of its command handlers still awaits its lookup.
C26_ProcessingWhilePending == MountedPending # {} => isProcessing

\* C27, as claimed: lookups settle, and speak their result, in the order in
\* which their commands were committed: the one that settles is always the
\* oldest one pending.
C27_ResultsInCommitOrder ==
  [][\A i \in 1..MaxPending, outcome \in {"ok", "fail"} : LookupDone(i, outcome) => i = 1]_vars

\* C28, as claimed: when the most recent speak call is the acknowledgement
\* of a Stop intent or of stopAllAudio (so that every pending command was
\* committed before the stop), no pending command speaks its result.
C28_NothingAudibleAfterStop ==
  [][(synthPresent /\ lastSpoken \in {StopText, StopAllText}) =>
       ~\E i \in 1..MaxPending, outcome \in {"ok", "fail"} :
           LookupDone(i, outcome) /\ synth' # <<>>]_vars

\* C29, as claimed: outside voice mode no recognition object captures, and in
\* voice mode the listening flag tells whether one does.
C29_CaptureOwnedByVoiceMode ==
  /\ activeMode # "voice" => ~(capturing \/ orphanCapturing)
  /\ activeMode = "voice" => (isListening <=> (capturing \/ orphanCapturing))

(***************************************************************************)
(* The last response (lifecycle specification).                            *)
(***************************************************************************)
\* C25, as claimed: the last response shown by Index is the text of the most
\* recent speakText call.
C25_LastResponseIsLastSpoken == lastResponse = lastSpoken

(***************************************************************************)
(* Properties of single commands (handler specification).                  *)
(***************************************************************************)
\* C23: a headline detail request for a number outside 1..NumHeadlines
\* (0 included) whose lookup resolves ends with the progress text followed by
\* the "not available, choose a number between 1 and N" text, which is the
\* last response; no error is raised and the processing flag is false.
C23_OutOfRangeHeadline ==
  \A n \in OutOfRange :
    (input = DetailRequest(n) /\ lastDone.lookup = "headlineDetail" /\ lastDone.outcome = "ok") =>
      /\ lastDone.said = <<DetailProgressText(n), HeadlineUnavailableText(n, NumHeadlines)>>
      /\ lastResponse = HeadlineUnavailableText(n, NumHeadlines)
      /\ synthPresent => synth = <<HeadlineUnavailableText(n, NumHeadlines)>>
      /\ ~lastDone.caught
      /\ ~fault
      /\ ~lastDone.flag
      /\ ~isProcessing

\* C23 witness: the lookup of a request for headline 0 has resolved and the
\* handler has spoken.
C23_Witness ==
  /\ input = DetailRequest(0)
  /\ lastDone.lookup = "headlineDetail"
  /\ lastDone.outcome = "ok"
  /\ synth = <<"Headline 0 is not available. Please choose a number between 1 and 5.">>

\* C24: committing a repeat request speaks the fixed announcement and
\* nothing else: the one text handed to the speaker is "Repeating last
\* response.", not the stored last response, and the stored last response
\* becomes the announcement.
C24_RepeatOnlyAnnounces ==
  [][(input \in RepeatRequests /\ Commit) =>
       (/\ result'.branch = "repeat"
        /\ result'.said = <<RepeatText>>
        /\ result'.lookup = "none"
        /\ pending' = pending
        /\ SpokeOnce(RepeatText))]_vars

\* C24 witness: a repeat request was committed after the welcome message had
\* become the last response.
C24_Witness ==
  /\ input \in RepeatRequests
  /\ ~welcomePending
  /\ lastDone.branch = "repeat"
  /\ lastResponse = RepeatText
  /\ synth = <<RepeatText>>

(***************************************************************************)
(* Properties of the web navigator (web specification).                    *)
(***************************************************************************)
MountedSearches == {i \in 1..Len(searches) : ~searches[i].orphan}

\* C30, as claimed: the mounted navigator has at most one search pending,
\* isSearching is true exactly while it has one, and results that are
\* displayed are the results computed for lastSearchQuery, the query named
\* in their heading.
C30_WebSearchState ==
  /\ Cardinality(MountedSearches) <= 1
  /\ isSearching <=> MountedSearches # {}
  /\ searchResults # <<>> => searchResults = realTimeResults(lastSearchQuery)
=============================================================================
